---- MODULE Spec2Model ----
(***************************************************************************)
(* A model of the protocol-transparent Server of src/proxy/server.rs:      *)
(* Source and its address reconciliation (orig_dst_if_not_local,           *)
(* same_addr), and Server::serve, the per-connection dispatch to the       *)
(* opaque forwarder, the HTTP/1 adapter or the HTTP/2 adapter under the    *)
(* supervision of the drain watch.                                         *)
(*                                                                         *)
(* Collaborators whose code is not part of server.rs (drain::Watch,        *)
(* tcp::forward, Protocol::detect, the protocol drivers) are modelled at   *)
(* their interface, as the specification document describes them.          *)
(***************************************************************************)
EXTENDS Integers, Sequences, FiniteSets, TLC

VARIABLES
    server,   \* the Server's configuration fields, set by Server::new
    drain,    \* the state of the drain signal shared through drain::Watch
    conn,     \* per connection: the state of the task serve() built for it
    signals,  \* how many times the drain was triggered
    args,     \* address specification: the (orig_dst, local) pair under test
    ret       \* address specification: what the function under test returned

vars == <<server, drain, signals, conn, args, ret>>

(***************************************************************************)
(* Bounds.                                                                 *)
(***************************************************************************)
\* The connections served concurrently.
Conns == {"c1", "c2"}

\* Requests an HTTP adapter may read, and responses it may write, on one
\* connection.
MaxResponses == 2

\* Times the drain may be triggered.
MaxSignals == 2

(***************************************************************************)
(* Option<T>: None is the empty sequence, Some(x) the one-element one.     *)
(***************************************************************************)
None == << >>

Some(x) == << x >>

unwrap_or(o, d) == IF o = None THEN d ELSE o[1]

(***************************************************************************)
(* std::net addresses.  An IPv4 address is its four octets, an IPv6        *)
(* address its eight 16-bit segments.                                      *)
(***************************************************************************)
V4(a, b, c, d) == [fam |-> "V4", octets |-> <<a, b, c, d>>]

V6(s) == [fam |-> "V6", segments |-> s]

SocketAddr(ip, port) == [ip |-> ip, port |-> port]

\* Ipv6Addr::to_ipv4 as server.rs calls it: Some for ::a.b.c.d (IPv4-compatible)
\* and for ::ffff:a.b.c.d (IPv4-mapped), None for every other address.
to_ipv4(a) ==
    LET s == a.segments IN
    IF s[1] = 0 /\ s[2] = 0 /\ s[3] = 0 /\ s[4] = 0 /\ s[5] = 0
       /\ (s[6] = 0 \/ s[6] = 65535)
    THEN Some(V4(s[7] \div 256, s[7] % 256, s[8] \div 256, s[8] % 256))
    ELSE None

\* Source::same_addr
same_addr(a0, a1) ==
    /\ a0.port = a1.port
    /\ CASE a0.ip.fam = "V6" /\ a1.ip.fam = "V4" -> to_ipv4(a0.ip) = Some(a1.ip)
         [] a0.ip.fam = "V4" /\ a1.ip.fam = "V6" -> Some(a0.ip) = to_ipv4(a1.ip)
         [] OTHER -> a0.ip = a1.ip

\* Source::orig_dst_if_not_local
orig_dst_if_not_local(self) ==
    IF self.orig_dst = None
    THEN None
    ELSE IF same_addr(self.orig_dst[1], self.local)
         THEN None
         ELSE Some(self.orig_dst[1])

\* struct Source
Source(remote, local, orig_dst, tls_status) ==
    [remote |-> remote, local |-> local, orig_dst |-> orig_dst,
     tls_status |-> tls_status]

(***************************************************************************)
(* The inputs of the model.                                                *)
(***************************************************************************)
\* The address the server listens on (Server::listen_addr).
ListenAddr == SocketAddr(V4(10, 0, 0, 1), 4140)

RemoteAddr == SocketAddr(V4(10, 0, 0, 9), 50000)

\* The ports configured in disable_protocol_detection_ports.
DisabledPorts == {25, 4140}

\* What connection.local_addr() may return.
LocalAddrs == {None, Some(ListenAddr)}

\* What connection.original_dst_addr() may return: nothing, a destination on
\* a port whose detection is disabled, one on a port whose detection is not,
\* and the listening socket itself.
OrigDsts ==
    {None,
     Some(SocketAddr(V4(10, 0, 0, 2), 25)),
     Some(SocketAddr(V4(10, 0, 0, 2), 80)),
     Some(ListenAddr)}

\* The HTTP/2 connection preface, as the tokens of "PRI * HTTP/2.0" and "SM".
H2_PREFACE == <<"PRI", " ", "* HTTP/2.0", "SM">>

\* The method tokens an HTTP/1 request line may start with.
Methods == {"GET", "POST"}

\* The first bytes a connection may carry, as token sequences: an HTTP/2
\* preface followed by a frame, an HTTP/1 request line, and non-HTTP bytes.
Windows ==
    {H2_PREFACE \o <<"SETTINGS">>,
     <<"GET", " ", "/">>,
     <<"0x16", "0x03">>}

IsPrefix(p, w) == Len(p) <= Len(w) /\ SubSeq(w, 1, Len(p)) = p

\* Protocol::detect: the preface first, then an HTTP/1 request line, else
\* nothing detected.
detect(w) ==
    IF IsPrefix(H2_PREFACE, w) THEN Some("Http2")
    ELSE IF Len(w) >= 3 /\ w[1] \in Methods /\ w[2] = " " THEN Some("Http1")
    ELSE None

(***************************************************************************)
(* The task of one connection.                                             *)
(*   pc        idle (not accepted yet), peeking, running (a forwarder or   *)
(*             adapter future is being driven), done, panicked             *)
(*   watch     the on-drain callback the task was registered with          *)
(*             ("none" when it is not registered with the drain watch)     *)
(*   on_drain  armed while the callback is still held, taken once invoked  *)
(*   inner     the wrapped future: pending, or ready to return Ok or Err   *)
(*             at its next poll                                            *)
(*   drained_in_peek when the peek completed the drain was signalled       *)
(*   io        some I/O (peek, read, write, relay) has proceeded           *)
(*   late      the factories invoked after some I/O had proceeded          *)
(*   new_service     the Source MakeNewService was built with (HTTP/2)     *)
(*   modify          the Source serve_modified's closure inserts (HTTP/2)  *)
(*   route_sources   the Sources the route-factory was invoked with        *)
(*   request_sources the Sources found in the requests' extensions         *)
(*   requests  the requests (HTTP/2: streams) the adapter has read         *)
(*   responses the responses it has written; the others are in flight      *)
(***************************************************************************)
Idle ==
    [pc |-> "idle", source |-> None, bytes |-> << >>,
     accept_calls |-> 0, connect_calls |-> 0, route_calls |-> 0,
     accept_failed |-> FALSE, accept_source |-> None,
     io |-> FALSE, late |-> {},
     peek_calls |-> 0, detect_calls |-> 0, drained_in_peek |-> FALSE,
     peek_failed |-> FALSE, route_failed |-> FALSE, connect_failed |-> FALSE,
     detected |-> "unset", started |-> {},
     new_service |-> None, modify |-> None,
     route_sources |-> {}, request_sources |-> {},
     watch |-> "none", on_drain |-> "none", callbacks |-> 0,
     shutdown |-> FALSE, inner |-> "none", requests |-> 0, responses |-> 0,
     result |-> "pending", completions |-> 0]

\* tcp::forward(io, &connect, &source): asks the connect-factory for the
\* outbound connector and returns the forwarding future; without a
\* connector the future fails as soon as it is polled.
forward(r, connectOk) ==
    [r EXCEPT !.connect_calls = @ + 1,
              !.connect_failed = ~connectOk,
              !.started = @ \cup {"forward"},
              !.inner = IF connectOk THEN "pending" ELSE "ready_err"]

\* A watch that notices only the signals raised after it was created.
watch_misses_earlier_signal(r, on_drain) ==
    [r EXCEPT !.watch = on_drain,
              !.on_drain = IF drain = "Draining" THEN "taken" ELSE "armed"]

\* drain::Watch::watch(inner, on_drain): the future Watching{inner, on_drain}.
watch(r, on_drain) == [r EXCEPT !.watch = on_drain, !.on_drain = "armed"]

\* The poll of the wrapped future: Ready once it has run to its end.
poll_inner(r) ==
    IF r.inner \in {"ready_ok", "ready_err"}
    THEN [r EXCEPT !.pc = "done",
                   !.result = IF r.inner = "ready_ok" THEN "ok" ELSE "err",
                   !.completions = @ + 1]
    ELSE r

\* An on-drain closure that closes the connection instead of asking the
\* driver for a graceful shutdown.
on_drain_call_closes(r) ==
    [r EXCEPT !.callbacks = @ + 1,
              !.shutdown = (r.watch = "graceful_shutdown"),
              !.inner = "ready_err"]

\* On-drain closures that all do nothing: the drivers are never asked to
\* shut down.
on_drain_call_noop(r) == [r EXCEPT !.callbacks = @ + 1]

\* The on-drain closures serve() passes to watch: |_| {} and
\* |conn| conn.graceful_shutdown().
on_drain_call(r) ==
    [r EXCEPT !.callbacks = @ + 1,
              !.shutdown = (r.watch = "graceful_shutdown")]

\* Watching::poll that keeps the callback after calling it.
poll_watching_keeps_callback(r, signalled) ==
    IF r.on_drain = "armed" /\ signalled
    THEN poll_inner(on_drain_call(r))
    ELSE poll_inner(r)

\* Watching::poll: when the drain has been signalled and the callback is
\* still held, take it and call it on the wrapped future; then poll the
\* wrapped future.
poll_watching(r, signalled) ==
    IF r.on_drain = "armed" /\ signalled
    THEN poll_inner([on_drain_call(r) EXCEPT !.on_drain = "taken"])
    ELSE poll_inner(r)

\* A new HTTP/2 stream: the multiplexer asks the MakeNewService for a router,
\* which invokes the route-factory with the Source it was built with, and
\* runs serve_modified's closure on the request.
new_stream(r) ==
    [r EXCEPT !.route_calls = @ + 1,
              !.route_sources = @ \cup {r.new_service[1]},
              !.request_sources = @ \cup {r.modify[1]}]

\* The poll of a connection driver reading a request that has arrived: an
\* HTTP/1 driver reads the next request once the response to the last one
\* is written, an HTTP/2 multiplexer opens a stream at any time; neither
\* reads a new request after graceful_shutdown().
read_request(r, readable) ==
    IF /\ readable
       /\ r.pc = "running"
       /\ r.inner = "pending"
       /\ r.started \cap {"http1", "http2"} # {}
       /\ ~r.shutdown
       /\ r.requests < MaxResponses
       /\ "http1" \in r.started => r.requests = r.responses
    THEN IF "http2" \in r.started
         THEN new_stream([r EXCEPT !.requests = @ + 1])
         ELSE [r EXCEPT !.requests = @ + 1]
    ELSE r

\* A task that is parked, and never polls its wrapped future again, once
\* the drain has called its callback.
poll_task_parks_when_draining(r, signalled) ==
    IF r.watch = "none" THEN poll_inner(r)
    ELSE IF signalled /\ r.on_drain = "taken" THEN r
    ELSE poll_watching(r, signalled)

\* One poll of the future serve() returned, past the peek.
poll_task(r, signalled) ==
    IF r.watch = "none" THEN poll_inner(r) ELSE poll_watching(r, signalled)

(***************************************************************************)
(* Server::serve                                                           *)
(***************************************************************************)
\* The detection policy with the membership test inverted.
disable_protocol_detection_inverted(ports, orig_dst) ==
    IF orig_dst = None THEN FALSE ELSE orig_dst[1].port \notin ports

\* The detection policy falling back on the listen port when the lookup
\* found no original destination.
disable_protocol_detection_listen_port(ports, orig_dst) ==
    IF orig_dst = None THEN ListenAddr.port \in ports
    ELSE orig_dst[1].port \in ports

\* let disable_protocol_detection = orig_dst.map(|addr| ...contains(&addr.port()))
\*                                          .unwrap_or(false)
disable_protocol_detection(ports, orig_dst) ==
    IF orig_dst = None THEN FALSE ELSE orig_dst[1].port \in ports

\* if disable_protocol_detection { ... }: forward under the drain watch.
serve_disabled(r, connectOk) ==
    [watch(forward(r, connectOk), "noop") EXCEPT !.pc = "running"]

\* let detect_protocol = io.peek()...: the peek is issued, nothing is read yet.
serve_detect(r) == [r EXCEPT !.pc = "peeking", !.peek_calls = @ + 1]

\* serve() without the early return of the detection-disabled branch: the
\* connection is forwarded and also peeked.
serve_without_return(r, local_addr, orig_dst, bytes, acceptOk, connectOk) ==
    LET source == Source(RemoteAddr,
                         unwrap_or(local_addr, server.listen_addr),
                         orig_dst, "Disabled")
        r1 == [r EXCEPT !.source = Some(source), !.bytes = bytes,
                        !.accept_calls = @ + 1,
                        !.accept_source = Some(source),
                        !.accept_failed = ~acceptOk]
    IN  IF ~acceptOk
        THEN [r1 EXCEPT !.pc = "panicked"]
        ELSE IF disable_protocol_detection(
                    server.disable_protocol_detection_ports, orig_dst)
             THEN serve_detect(serve_disabled(r1, connectOk))
             ELSE serve_detect(r1)

\* serve() deciding the detection policy, and forwarding, before it invokes
\* the accept-factory.
serve_accepts_last(r, local_addr, orig_dst, bytes, acceptOk, connectOk) ==
    LET source == Source(RemoteAddr,
                         unwrap_or(local_addr, server.listen_addr),
                         orig_dst, "Disabled")
        r1 == [r EXCEPT !.source = Some(source), !.bytes = bytes]
        r2 == IF disable_protocol_detection(
                    server.disable_protocol_detection_ports, orig_dst)
              THEN serve_disabled(r1, connectOk)
              ELSE serve_detect(r1)
        r3 == [r2 EXCEPT !.accept_calls = @ + 1,
                         !.accept_source = Some(source),
                         !.accept_failed = ~acceptOk]
    IN  IF ~acceptOk THEN [r3 EXCEPT !.pc = "panicked"] ELSE r3

\* The synchronous part of serve(): the Source, the accept-factory, the
\* detection policy.  A failing accept-factory panics in expect().
serve(r, local_addr, orig_dst, bytes, acceptOk, connectOk) ==
    LET source == Source(RemoteAddr,
                         unwrap_or(local_addr, server.listen_addr),
                         orig_dst, "Disabled")
        r1 == [r EXCEPT !.source = Some(source), !.bytes = bytes,
                        !.accept_calls = @ + 1,
                        !.accept_source = Some(source),
                        !.accept_failed = ~acceptOk]
    IN  IF ~acceptOk
        THEN [r1 EXCEPT !.pc = "panicked"]
        ELSE IF disable_protocol_detection(
                    server.disable_protocol_detection_ports, orig_dst)
             THEN serve_disabled(r1, connectOk)
             ELSE serve_detect(r1)

\* A peek error taken for an undetected protocol: the connection is forwarded.
peek_error_forwards(r) ==
    [watch(forward([r EXCEPT !.peek_failed = TRUE], TRUE), "noop")
     EXCEPT !.pc = "running"]

\* .map_err(|e| debug!("peek error: {}", e)): the task ends with Err(()).
peek_error(r) ==
    [r EXCEPT !.peek_failed = TRUE, !.pc = "done", !.result = "err",
              !.completions = @ + 1]

\* The HTTP/1 branch falling back to opaque forwarding when the
\* route-factory fails.
serve_http1_falls_back(r, routeOk) ==
    LET r1 == [r EXCEPT !.route_calls = @ + 1, !.route_failed = ~routeOk,
                        !.route_sources = @ \cup {r.source[1]}] IN
    IF ~routeOk
    THEN [watch(forward(r1, TRUE), "noop") EXCEPT !.pc = "running"]
    ELSE [watch([r1 EXCEPT !.started = @ \cup {"http1"}, !.inner = "pending"],
                "graceful_shutdown")
          EXCEPT !.pc = "running"]

\* Protocol::Http1 => match route.make(&source) { Err(()) => future::err(()),
\*                                                Ok(s) => watch(conn, graceful_shutdown) }
serve_http1(r, routeOk) ==
    LET r1 == [r EXCEPT !.route_calls = @ + 1, !.route_failed = ~routeOk,
                        !.route_sources = @ \cup {r.source[1]}] IN
    IF ~routeOk
    THEN [r1 EXCEPT !.pc = "running", !.inner = "ready_err"]
    ELSE [watch([r1 EXCEPT !.started = @ \cup {"http1"}, !.inner = "pending"],
                "graceful_shutdown")
          EXCEPT !.pc = "running"]

\* A closure that inserts a Source without the original destination.
modify_source_without_orig_dst(r) == [r.source[1] EXCEPT !.orig_dst = None]

\* move |r: &mut http::Request<()>| { r.extensions_mut().insert(source.clone()); }
modify_source(r) == r.source[1]

\* MakeNewService::new(route, source.clone())
make_new_service(r) == r.source[1]

\* The HTTP/2 branch registering the forwarder's no-op closure.
serve_http2_noop(r) ==
    [watch([r EXCEPT !.started = @ \cup {"http2"}, !.inner = "pending",
                     !.new_service = Some(make_new_service(r)),
                     !.modify = Some(modify_source(r))],
           "noop")
     EXCEPT !.pc = "running"]

\* Protocol::Http2 => watch(h2.serve_modified(io, ..), graceful_shutdown)
serve_http2(r) ==
    [watch([r EXCEPT !.started = @ \cup {"http2"}, !.inner = "pending",
                     !.new_service = Some(make_new_service(r)),
                     !.modify = Some(modify_source(r))],
           "graceful_shutdown")
     EXCEPT !.pc = "running"]

\* The undetected branch returning the forwarder without the drain watch.
serve_undetected_unwatched(r, connectOk) ==
    [forward(r, connectOk) EXCEPT !.pc = "running"]

\* None => watch(tcp::forward(io, &connect, &source), |_| {})
serve_undetected(r, connectOk) ==
    [watch(forward(r, connectOk), "noop") EXCEPT !.pc = "running"]

\* The match with HTTP/2 connections taken for undetected ones.
and_then_forwards_http2(r, proto, routeOk, connectOk) ==
    IF proto = Some("Http1") THEN serve_http1(r, routeOk)
    ELSE serve_undetected(r, connectOk)

\* .and_then(move |(proto, io)| match proto { ... })
and_then(r, proto, routeOk, connectOk) ==
    IF proto = None THEN serve_undetected(r, connectOk)
    ELSE IF proto = Some("Http1") THEN serve_http1(r, routeOk)
    ELSE serve_http2(r)

\* .map(|io| { let p = Protocol::detect(io.peeked()); (p, io) }) and the
\* and_then closure; the future the closure returns is polled at once.
peek_ready(r, routeOk, connectOk, signalled) ==
    LET p  == detect(r.bytes)
        r1 == [r EXCEPT !.detect_calls = @ + 1,
                        !.drained_in_peek = signalled,
                        !.detected = IF p = None THEN "None" ELSE p[1]]
    IN  poll_task(and_then(r1, p, routeOk, connectOk), signalled)

(***************************************************************************)
(* Actions.                                                                *)
(***************************************************************************)
Signalled == drain = "Draining"

\* The factories a step invoked.
invoked(before, after) ==
    {f \in {"accept", "connect", "route"} :
        \/ f = "accept" /\ after.accept_calls > before.accept_calls
        \/ f = "connect" /\ after.connect_calls > before.connect_calls
        \/ f = "route" /\ after.route_calls > before.route_calls}

\* The order of a step's factory invocations and I/O: io tells whether the
\* step's I/O, if any, has proceeded when the step invokes its factories.
step(before, after, io) ==
    [after EXCEPT !.io = before.io \/ io,
                  !.late = @ \cup IF before.io \/ io
                                  THEN invoked(before, after)
                                  ELSE {}]

\* The listener accepts a connection and calls serve() on it.
Serve(c) ==
    /\ conn[c].pc = "idle"
    /\ \E local_addr \in LocalAddrs, orig_dst \in OrigDsts, bytes \in Windows,
          acceptOk \in BOOLEAN, connectOk \in BOOLEAN :
          conn' = [conn EXCEPT ![c] =
                      step(conn[c],
                           serve(conn[c], local_addr, orig_dst, bytes,
                                 acceptOk, connectOk),
                           FALSE)]
    /\ UNCHANGED <<server, drain, signals, args, ret>>

\* A peek failure that brings down every task of the server.
PeekError_aborts_all(c) ==
    /\ conn[c].pc = "peeking"
    /\ conn' = [d \in Conns |->
                  IF d = c THEN step(conn[c], peek_error(conn[c]), TRUE)
                  ELSE IF conn[d].pc \in {"peeking", "running"}
                       THEN [conn[d] EXCEPT !.pc = "done", !.result = "err"]
                       ELSE conn[d]]
    /\ UNCHANGED <<server, drain, signals, args, ret>>

\* The peek fails with a transport error.
PeekError(c) ==
    /\ conn[c].pc = "peeking"
    /\ conn' = [conn EXCEPT ![c] = step(conn[c], peek_error(conn[c]), TRUE)]
    /\ UNCHANGED <<server, drain, signals, args, ret>>

\* The peek succeeds: the protocol is detected and the connection dispatched.
PeekReady(c) ==
    /\ conn[c].pc = "peeking"
    /\ \E routeOk \in BOOLEAN, connectOk \in BOOLEAN :
          conn' = [conn EXCEPT ![c] =
                      step(conn[c],
                           peek_ready(conn[c], routeOk, connectOk, Signalled),
                           TRUE)]
    /\ UNCHANGED <<server, drain, signals, args, ret>>

\* The executor polls the task of a dispatched connection; the drain watch
\* is polled first, then the wrapped future, which may read a request.
Poll(c) ==
    /\ conn[c].pc = "running"
    /\ \E readable \in BOOLEAN :
          LET after == read_request(poll_task(conn[c], Signalled), readable)
          IN  conn' = [conn EXCEPT ![c] =
                          step(conn[c], after,
                               after.requests # conn[c].requests)]
    /\ UNCHANGED <<server, drain, signals, args, ret>>

\* The wrapped forwarder or driver reaches its natural end: the peers
\* closed or the driver shut down gracefully (Ok), which a driver does only
\* with no request in flight, or the transport failed (Err).
InnerReady(c) ==
    /\ conn[c].pc = "running"
    /\ conn[c].inner = "pending"
    /\ \E outcome \in {"ready_ok", "ready_err"} :
          /\ outcome = "ready_ok" => conn[c].requests = conn[c].responses
          /\ conn' = [conn EXCEPT ![c].inner = outcome, ![c].io = TRUE]
    /\ UNCHANGED <<server, drain, signals, args, ret>>

\* An HTTP adapter writes the response to a request in flight.
Respond(c) ==
    /\ conn[c].pc = "running"
    /\ conn[c].inner = "pending"
    /\ conn[c].started \cap {"http1", "http2"} # {}
    /\ conn[c].responses < MaxResponses
    /\ conn[c].responses < conn[c].requests
    /\ conn' = [conn EXCEPT ![c].responses = @ + 1, ![c].io = TRUE]
    /\ UNCHANGED <<server, drain, signals, args, ret>>

\* A trigger that flips the drain state each time it is called.
signal_toggles(d) == IF d = "Running" THEN "Draining" ELSE "Running"

\* The drain's trigger: Running becomes Draining, Draining stays.
signal(d) == "Draining"

\* The process begins to shut down: the drain is triggered (again).
Drain ==
    /\ signals < MaxSignals
    /\ signals' = signals + 1
    /\ drain' = signal(drain)
    /\ UNCHANGED <<server, conn, args, ret>>

\* Nothing was called yet in the address specification.
Unset == [fn |-> "unset", val |-> None]

\* Server::new
InitServer ==
    server = [disable_protocol_detection_ports |-> DisabledPorts,
              listen_addr |-> ListenAddr,
              accept |-> "accept", connect |-> "connect", route |-> "route"]

Init ==
    /\ InitServer
    /\ drain = "Running"
    /\ signals = 0
    /\ conn = [c \in Conns |-> Idle]
    /\ args = <<None, ListenAddr>>
    /\ ret = Unset

Next ==
    \/ \E c \in Conns : Serve(c)
    \/ \E c \in Conns : PeekError(c)
    \/ \E c \in Conns : PeekReady(c)
    \/ \E c \in Conns : Poll(c)
    \/ \E c \in Conns : InnerReady(c)
    \/ \E c \in Conns : Respond(c)
    \/ Drain

Spec == Init /\ [][Next]_vars

\* The life of one connection under a fair executor: the executor polls
\* again every task that has been woken, so a task whose poll would make
\* progress is eventually polled.
LiveConn == "c1"

NextLive ==
    \/ Serve(LiveConn)
    \/ PeekError(LiveConn)
    \/ PeekReady(LiveConn)
    \/ Poll(LiveConn)
    \/ InnerReady(LiveConn)
    \/ Respond(LiveConn)
    \/ Drain

FairSpec == Init /\ [][NextLive]_vars /\ WF_vars(Poll(LiveConn))

(***************************************************************************)
(* The address specification: Source::orig_dst_if_not_local and            *)
(* Source::same_addr applied to every pair of the addresses below.         *)
(***************************************************************************)
\* 10.0.0.1 and 10.0.0.2; the IPv4-mapped forms ::ffff:10.0.0.1 and
\* ::ffff:10.0.0.2; the IPv4-compatible form ::10.0.0.1; 2001:db8::a00:1,
\* which ends in the same 32 bits; and ::1:ffff:a00:1.
Ips ==
    {V4(10, 0, 0, 1),
     V4(10, 0, 0, 2),
     V6(<<0, 0, 0, 0, 0, 65535, 2560, 1>>),
     V6(<<0, 0, 0, 0, 0, 65535, 2560, 2>>),
     V6(<<0, 0, 0, 0, 0, 0, 2560, 1>>),
     V6(<<8193, 3512, 0, 0, 0, 0, 2560, 1>>),
     V6(<<0, 0, 0, 0, 1, 65535, 2560, 1>>)}

Ports == {80, 81}

Addrs == {SocketAddr(ip, port) : ip \in Ips, port \in Ports}

InitAddr ==
    /\ InitServer
    /\ drain = "Running"
    /\ signals = 0
    /\ conn = [c \in Conns |-> Idle]
    /\ args \in ({None} \cup {Some(a) : a \in Addrs}) \X Addrs
    /\ ret = Unset

\* source.orig_dst_if_not_local() on a Source with orig_dst args[1] and
\* local args[2].
CallOrigDstIfNotLocal ==
    /\ ret.fn = "unset"
    /\ ret' = [fn |-> "orig_dst_if_not_local",
               val |-> orig_dst_if_not_local(
                           Source(RemoteAddr, args[2], args[1], "Disabled"))]
    /\ UNCHANGED <<server, drain, signals, conn, args>>

\* Source::same_addr(&orig_dst, &self.local), as orig_dst_if_not_local
\* calls it.
CallSameAddr ==
    /\ ret.fn = "unset"
    /\ args[1] # None
    /\ ret' = [fn |-> "same_addr", val |-> same_addr(args[1][1], args[2])]
    /\ UNCHANGED <<server, drain, signals, conn, args>>

NextAddr == CallOrigDstIfNotLocal \/ CallSameAddr

SpecAddr == InitAddr /\ [][NextAddr]_vars

(***************************************************************************)
(* Properties of the dispatch (checked under Spec).                        *)
(***************************************************************************)
\* serve() was called on the connection and returned its task.
Served(c) == conn[c].pc \in {"peeking", "running", "done"}

\* The connection's original destination is on a port of the disable set.
OnDisabledPort(c) ==
    /\ conn[c].source # None
    /\ conn[c].source[1].orig_dst # None
    /\ conn[c].source[1].orig_dst[1].port \in server.disable_protocol_detection_ports

\* The task went past the peek and the protocol detection.
Detected(c) == conn[c].pc \in {"running", "done"} /\ conn[c].detected # "unset"

\* C1 (as stated): every connection whose task has ended had exactly one of
\* the opaque forwarder, the HTTP/1 adapter and the HTTP/2 adapter started.
C1_ExactlyOneStarted ==
    \A c \in Conns :
        conn[c].pc = "done" => Cardinality(conn[c].started) = 1

\* C1 (amended): never two of the forwarder and the two adapters are started
\* for one connection; exactly one is started once the connection is
\* dispatched, unless its peek or its route-factory failed, and then none is.
C1_AtMostOneStarted ==
    \A c \in Conns :
        /\ Cardinality(conn[c].started) <= 1
        /\ (conn[c].pc \in {"running", "done"}
                /\ ~conn[c].peek_failed /\ ~conn[c].route_failed)
              => Cardinality(conn[c].started) = 1
        /\ (conn[c].peek_failed \/ conn[c].route_failed) => conn[c].started = {}

\* A connection ended as an HTTP/2 connection, the other as a forwarded one.
C1_Witness ==
    \E c, d \in Conns :
        /\ conn[c].pc = "done" /\ conn[c].started = {"http2"}
        /\ conn[d].pc = "done" /\ conn[d].started = {"forward"}

\* C2: a connection whose original destination is on a port of the disable
\* set is handed to the opaque forwarder under the drain watch, and is never
\* peeked nor run through Protocol::detect, whatever bytes it carries.
C2_DisabledPortsSkipDetection ==
    \A c \in Conns :
        OnDisabledPort(c) =>
            /\ conn[c].peek_calls = 0
            /\ conn[c].detect_calls = 0
            /\ conn[c].detected = "unset"
            /\ ~conn[c].peek_failed
            /\ Served(c) => /\ conn[c].started = {"forward"}
                            /\ conn[c].watch = "noop"
                            /\ conn[c].route_calls = 0

\* A connection carrying an HTTP/1 request line to a port of the disable set
\* was forwarded to its end, and so was one carrying the HTTP/2 preface.
C2_Witness ==
    \E c, d \in Conns :
        /\ OnDisabledPort(c) /\ detect(conn[c].bytes) = Some("Http1")
        /\ conn[c].pc = "done" /\ conn[c].result = "ok"
        /\ OnDisabledPort(d) /\ detect(conn[d].bytes) = Some("Http2")
        /\ conn[d].pc = "done" /\ conn[d].started = {"forward"}

\* What C3 says of the undetected and of the HTTP/2 branch.
C3_OpaqueAndHttp2(c) ==
    /\ conn[c].detected = "None" =>
          /\ conn[c].started = {"forward"}
          /\ conn[c].connect_calls = 1
          /\ conn[c].route_calls = 0
    /\ conn[c].detected = "Http2" =>
          /\ conn[c].started = {"http2"}
          /\ conn[c].connect_calls = 0
    /\ conn[c].detected = "unset" /\ conn[c].connect_calls > 0 =>
          /\ OnDisabledPort(c)
          /\ conn[c].started = {"forward"}

\* C3 (as stated): past a successful peek, an undetected connection starts
\* the forwarder through the connect-factory and never calls the
\* route-factory; an Http1 one calls the route-factory and starts the HTTP/1
\* adapter; an Http2 one starts the HTTP/2 adapter; the connect-factory is
\* not called on the Http1 and Http2 branches.
C3_BranchBySnifferResult ==
    \A c \in Conns :
        Detected(c) =>
            /\ C3_OpaqueAndHttp2(c)
            /\ conn[c].detected = "Http1" =>
                  /\ conn[c].route_calls = 1
                  /\ conn[c].connect_calls = 0
                  /\ conn[c].started = {"http1"}

\* C3 (amended): as stated, except that an Http1 connection starts the
\* HTTP/1 adapter only when the route-factory succeeds; when it fails
\* nothing is started.
C3_BranchBySnifferResultUnlessRouteFails ==
    \A c \in Conns :
        /\ Detected(c) =>
            /\ C3_OpaqueAndHttp2(c)
            /\ conn[c].detected = "Http1" =>
                  /\ conn[c].route_calls = 1
                  /\ conn[c].connect_calls = 0
                  /\ conn[c].started =
                        IF conn[c].route_failed THEN {} ELSE {"http1"}
        /\ conn[c].connect_calls > 0 => conn[c].started = {"forward"}

\* One connection was detected as HTTP/1 and has its adapter, the other as
\* HTTP/2 or as undetected.
C3_Witness ==
    \E c, d \in Conns :
        /\ Detected(c) /\ conn[c].detected = "Http1"
        /\ conn[c].started = {"http1"}
        /\ Detected(d) /\ conn[d].detected \in {"None", "Http2"}
        /\ conn[d].started # {}

\* C4: a connection whose peek failed has its task ended with an error, and
\* neither the route-factory nor the connect-factory was called for it, nor
\* a forwarder or adapter started.
C4_PeekFailureEndsTask ==
    \A c \in Conns :
        conn[c].peek_failed =>
            /\ conn[c].pc = "done"
            /\ conn[c].result = "err"
            /\ conn[c].completions = 1
            /\ conn[c].route_calls = 0
            /\ conn[c].connect_calls = 0
            /\ conn[c].detect_calls = 0
            /\ conn[c].started = {}

\* The peek of a connection failed.
C4_Witness == \E c \in Conns : conn[c].peek_failed /\ conn[c].peek_calls = 1

\* C5: a connection for which a forwarder or an adapter was started is
\* registered with the drain watch, in every state from its start on.
C5_EveryBranchWatched ==
    \A c \in Conns :
        conn[c].started # {} =>
            /\ conn[c].watch \in {"noop", "graceful_shutdown"}
            /\ conn[c].on_drain \in {"armed", "taken"}

\* A forwarder of the detection-disabled branch and an HTTP adapter run, and
\* so do, in another state, a forwarder of the undetected branch.
C5_Witness ==
    \E c, d \in Conns :
        /\ conn[c].pc = "running" /\ conn[c].started = {"forward"}
        /\ conn[c].inner = "pending"
        /\ conn[c].detected \in {"unset", "None"}
        /\ conn[d].pc = "running" /\ conn[d].started \cap {"http1", "http2"} # {}
        /\ conn[d].responses > 0

\* C6: the on-drain callback of a task is called at most once, it is never
\* called once the task has ended, and a task that ends while the drain is
\* not signalled has not had it called.
C6_CallbackAtMostOnce ==
    [][\A c \in Conns :
          /\ conn'[c].callbacks <= 1
          /\ conn[c].pc = "done" => conn'[c].callbacks = conn[c].callbacks
          /\ (conn'[c].pc = "done" /\ drain' = "Running") => conn'[c].callbacks = 0
      ]_vars

\* The drain was signalled after one watched task had ended, which never had
\* its callback called, and the other task was polled after its callback.
C6_Witness ==
    \E c, d \in Conns :
        /\ drain = "Draining"
        /\ conn[c].pc = "done" /\ conn[c].watch # "none" /\ conn[c].callbacks = 0
        /\ conn[d].pc = "done" /\ conn[d].callbacks = 1

\* C7: the drain never ends a watched task by itself: the step that calls
\* the callback of a task whose wrapped future is pending leaves the future
\* pending and the task waiting for it; a watched task ends only when its
\* wrapped future ran to its end, with the future's result, and it reports
\* its completion exactly once.
C7_DrainNeverCompletesTask ==
    [][\A c \in Conns :
          /\ conn'[c].completions <= 1
          /\ conn'[c].watch # "none" =>
                /\ conn'[c].pc = "done" <=> conn'[c].completions = 1
                /\ conn'[c].pc = "done" =>
                      /\ conn'[c].inner \in {"ready_ok", "ready_err"}
                      /\ conn'[c].result =
                            IF conn'[c].inner = "ready_ok" THEN "ok" ELSE "err"
          /\ (conn[c].inner = "pending" /\ conn'[c].callbacks # conn[c].callbacks) =>
                /\ conn'[c].inner = "pending"
                /\ conn'[c].pc = "running"
                /\ conn'[c].completions = 0
          /\ drain' # drain => conn'[c] = conn[c]
      ]_vars

\* The callback of one task was called and the task still waits for its
\* wrapped future; the other task ended after its callback was called.
C7_Witness ==
    \E c, d \in Conns :
        /\ conn[c].callbacks = 1 /\ conn[c].pc = "running"
        /\ conn[c].inner = "pending" /\ conn[c].shutdown
        /\ conn[d].callbacks = 1 /\ conn[d].pc = "done"
        /\ conn[d].completions = 1

\* C8: when the route-factory fails for a connection detected as HTTP/1, the
\* task ends with an error, no adapter is started, the connect-factory is
\* not called and no response is written.
C8_RouteFailureEndsTask ==
    \A c \in Conns :
        conn[c].route_failed =>
            /\ conn[c].detected = "Http1"
            /\ conn[c].pc = "done"
            /\ conn[c].result = "err"
            /\ conn[c].started = {}
            /\ conn[c].connect_calls = 0
            /\ conn[c].responses = 0

\* The route-factory failed for a connection detected as HTTP/1.
C8_Witness ==
    \E c \in Conns :
        conn[c].route_failed /\ conn[c].detected = "Http1" /\ conn[c].route_calls = 1

(***************************************************************************)
(* Properties of the address reconciliation (checked under SpecAddr).      *)
(***************************************************************************)
\* x is the IPv4-mapped IPv6 form ::ffff:a.b.c.d of the IPv4 address y.
IsMappedFormOf(x, y) ==
    IF x.fam = "V6" /\ y.fam = "V4"
    THEN x.segments = <<0, 0, 0, 0, 0, 65535,
                        y.octets[1] * 256 + y.octets[2],
                        y.octets[3] * 256 + y.octets[4]>>
    ELSE FALSE

\* The cross-family rule: the ports are equal, and the IPs are the same IPv4
\* address, or the same IPv6 address, or one the IPv4-mapped form of the other.
AddressEqual(a, b) ==
    /\ a.port = b.port
    /\ \/ a.ip.fam = b.ip.fam /\ a.ip = b.ip
       \/ IsMappedFormOf(a.ip, b.ip)
       \/ IsMappedFormOf(b.ip, a.ip)

\* C9: orig_dst_if_not_local returns None when orig_dst is absent or
\* address-equal to local under the cross-family rule, and Some(orig_dst)
\* otherwise.
C9_NoneIffAddressEqual ==
    ret.fn = "orig_dst_if_not_local" =>
        ret.val = IF args[1] = None \/ AddressEqual(args[1][1], args[2])
                  THEN None
                  ELSE args[1]

\* C10: same_addr holds exactly of the pairs the cross-family rule makes
\* equal, and it is symmetric.
C10_SameAddrIsCrossFamilyRule ==
    ret.fn = "same_addr" =>
        /\ ret.val = AddressEqual(args[1][1], args[2])
        /\ ret.val = same_addr(args[2], args[1][1])

(***************************************************************************)
(* Properties of the drain and of the connection drivers.                  *)
(***************************************************************************)
\* C11: the drain is Running or Draining, it only moves from Running to
\* Draining, and a trigger of a drain that is Draining changes nothing: not
\* the drain, not a task; no task has its callback called a second time.
C11_DrainOneWayIdempotent ==
    [][/\ drain \in {"Running", "Draining"}
       /\ drain' \in {"Running", "Draining"}
       /\ drain = "Draining" => drain' = "Draining"
       /\ signals' # signals => /\ drain' = "Draining"
                                /\ conn' = conn
                                /\ server' = server
       /\ (signals > 0) = (drain = "Draining")
       /\ \A c \in Conns : conn'[c].callbacks <= 1
      ]_vars

\* The drain was triggered twice, and a task that had its callback called
\* once has run to its end.
C11_Witness ==
    /\ signals >= 2
    /\ drain = "Draining"
    /\ \E c \in Conns : conn[c].pc = "done" /\ conn[c].callbacks = 1

\* C12: on an HTTP/1 connection no request is read once the drain is
\* Draining; the callback called with a request in flight, on a transport
\* that has not failed, leaves the request in flight and the driver
\* running; a connection asked to shut down closes
\* normally only when the response to every request it read is written; and
\* at most one request is in flight.
C12_Http1DrainMidRequest ==
    [][\A c \in Conns :
          "http1" \in conn[c].started =>
              /\ drain = "Draining" => conn'[c].requests = conn[c].requests
              /\ (conn'[c].callbacks # conn[c].callbacks
                    /\ conn[c].inner = "pending"
                    /\ conn[c].requests > conn[c].responses) =>
                    /\ conn'[c].shutdown
                    /\ conn'[c].pc = "running"
                    /\ conn'[c].inner = "pending"
                    /\ conn'[c].requests = conn[c].requests
                    /\ conn'[c].responses = conn[c].responses
              /\ (conn'[c].shutdown /\ conn'[c].pc = "done"
                    /\ conn'[c].result = "ok") =>
                    conn'[c].responses = conn'[c].requests
              /\ conn'[c].responses <= conn'[c].requests
              /\ conn'[c].requests <= conn'[c].responses + 1
      ]_vars

\* The drain callback was called on an HTTP/1 connection with a request in
\* flight, which is still in flight; the other HTTP/1 connection closed
\* normally after its shutdown with its one response written.
C12_Witness ==
    \E c, d \in Conns :
        /\ conn[c].started = {"http1"} /\ conn[c].shutdown
        /\ conn[c].pc = "running"
        /\ conn[c].requests = 1 /\ conn[c].responses = 0
        /\ conn[d].started = {"http1"} /\ conn[d].shutdown
        /\ conn[d].pc = "done" /\ conn[d].result = "ok"
        /\ conn[d].requests = 1 /\ conn[d].responses = 1

\* C13: on an HTTP/2 connection the route-factory is invoked once for every
\* stream, with the Source built when the connection was accepted, and every
\* request carries that Source, also with several streams open at once.
C13_Http2StreamsShareSource ==
    \A c \in Conns :
        "http2" \in conn[c].started =>
            /\ conn[c].route_calls = conn[c].requests
            /\ conn[c].new_service = conn[c].source
            /\ conn[c].route_sources \subseteq {conn[c].source[1]}
            /\ conn[c].request_sources \subseteq {conn[c].source[1]}
            /\ conn[c].requests > 0 =>
                  /\ conn[c].route_sources = {conn[c].source[1]}
                  /\ conn[c].request_sources = {conn[c].source[1]}

\* Two streams are open at once on an HTTP/2 connection that has an
\* original destination.
C13_Witness ==
    \E c \in Conns :
        /\ conn[c].started = {"http2"}
        /\ conn[c].source[1].orig_dst # None
        /\ conn[c].requests = 2 /\ conn[c].responses = 0
        /\ conn[c].route_calls = 2

(***************************************************************************)
(* Properties of the factories.                                            *)
(***************************************************************************)
\* C14 (as stated): each factory invoked for a connection is invoked before
\* any I/O proceeds on the connection.
C14_FactoriesBeforeIo ==
    \A c \in Conns : conn[c].late = {}

\* C14 (amended): the accept-factory, and on the detection-disabled branch
\* the connect-factory, are invoked before any I/O proceeds on the
\* connection; on the detection branch the connect-factory and the
\* route-factory are invoked only after the peek has completed.
C14_FactoriesAroundPeek ==
    \A c \in Conns :
        /\ "accept" \notin conn[c].late
        /\ conn[c].detected = "unset" => conn[c].late = {}
        /\ conn[c].pc = "peeking" =>
              conn[c].connect_calls = 0 /\ conn[c].route_calls = 0
        /\ conn[c].detected # "unset" =>
              /\ conn[c].io
              /\ conn[c].connect_calls > 0 => "connect" \in conn[c].late
              /\ conn[c].route_calls > 0 => "route" \in conn[c].late
        /\ (conn[c].connect_calls > 0 /\ ~conn[c].io) =>
              (conn[c].detected = "unset" /\ conn[c].started = {"forward"})

\* The connect-factory failed for a connection on a disabled port before
\* any I/O, and the route-factory failed for the other after its peek.
C14_Witness ==
    \E c, d \in Conns :
        /\ conn[c].connect_failed /\ ~conn[c].io /\ conn[c].late = {}
        /\ conn[d].route_failed /\ conn[d].late = {"route"}

\* C16: serve invokes the accept-factory once per connection, with the
\* connection's Source and before any I/O; when the factory fails serve
\* panics before the detection policy, the peek and the other factories:
\* nothing is peeked, detected, forwarded or served for the connection.
C16_AcceptFirstOrPanic ==
    \A c \in Conns :
        /\ conn[c].pc = "idle" =>
              /\ conn[c].accept_calls = 0 /\ conn[c].connect_calls = 0
              /\ conn[c].route_calls = 0 /\ conn[c].peek_calls = 0
        /\ conn[c].pc # "idle" =>
              /\ conn[c].accept_calls = 1
              /\ conn[c].accept_source = conn[c].source
              /\ conn[c].source # None
              /\ "accept" \notin conn[c].late
        /\ conn[c].accept_failed <=> conn[c].pc = "panicked"
        /\ conn[c].accept_failed =>
              /\ conn[c].peek_calls = 0 /\ conn[c].detect_calls = 0
              /\ conn[c].connect_calls = 0 /\ conn[c].route_calls = 0
              /\ conn[c].started = {} /\ conn[c].watch = "none"
              /\ conn[c].requests = 0 /\ conn[c].completions = 0

\* The accept-factory failed for a connection to a port of the disable set
\* and for a connection carrying an HTTP/1 request.
C16_Witness ==
    \E c, d \in Conns :
        /\ conn[c].pc = "panicked" /\ OnDisabledPort(c)
        /\ conn[d].pc = "panicked" /\ ~OnDisabledPort(d)
        /\ detect(conn[d].bytes) = Some("Http1")

(***************************************************************************)
(* The drain callbacks.                                                    *)
(***************************************************************************)
\* C15: the HTTP/1 and HTTP/2 adapters are watched with a callback that asks
\* the driver for a graceful shutdown, so the driver is shutting down
\* exactly when its callback has been called; the forwarder, on the
\* detection-disabled branch and on the undetected branch, is watched with
\* a callback that does nothing: the call leaves the forwarding as it was.
C15_DrainCallbacks ==
    [][\A c \in Conns :
          /\ conn'[c].started \cap {"http1", "http2"} # {} =>
                /\ conn'[c].watch = "graceful_shutdown"
                /\ conn'[c].shutdown <=> conn'[c].callbacks = 1
          /\ "forward" \in conn'[c].started =>
                /\ conn'[c].watch = "noop"
                /\ ~conn'[c].shutdown
                /\ (conn[c].pc = "running" /\
                    conn'[c].callbacks # conn[c].callbacks) =>
                      /\ conn'[c].inner = conn[c].inner
                      /\ conn[c].inner = "pending" =>
                            conn'[c] = [conn[c] EXCEPT !.callbacks = 1,
                                                       !.on_drain = "taken"]
      ]_vars

\* The callback has been called on a forwarder still relaying and on an
\* HTTP/2 driver.
C15_Witness ==
    \E c, d \in Conns :
        /\ conn[c].started = {"forward"} /\ conn[c].callbacks = 1
        /\ conn[c].pc = "running" /\ conn[c].inner = "pending"
        /\ conn[d].started = {"http2"} /\ conn[d].callbacks = 1
        /\ conn[d].shutdown

(***************************************************************************)
(* Termination.                                                            *)
(***************************************************************************)
\* C17: under fair scheduling a watched task completes exactly when its
\* wrapped future does: a task whose wrapped future has reached its end,
\* draining or not, eventually reports that completion, and a task whose
\* wrapped future is still pending (a stalled peer) is never completed,
\* however long the drain has been signalled.
C17_CompletesIffInnerCompletes ==
    /\ \A c \in Conns :
          (conn[c].pc = "running" /\ conn[c].inner \in {"ready_ok", "ready_err"})
             ~> (conn[c].pc = "done" /\ conn[c].completions = 1)
    /\ \A c \in Conns :
          (Signalled /\ conn[c].pc = "running"
                     /\ conn[c].inner \in {"ready_ok", "ready_err"})
             ~> (Signalled /\ conn[c].pc = "done")
    /\ [](\A c \in Conns :
             (conn[c].watch # "none" /\ conn[c].inner = "pending") =>
                /\ conn[c].pc = "running"
                /\ conn[c].result = "pending"
                /\ conn[c].completions = 0)

\* While draining, a task whose callback was called has completed with its
\* wrapped future, after both of its requests were answered.
C17_Witness ==
    \E c \in Conns :
        /\ Signalled
        /\ conn[c].pc = "done" /\ conn[c].callbacks = 1
        /\ conn[c].shutdown
        /\ conn[c].inner = "ready_ok"
        /\ conn[c].responses = MaxResponses

(***************************************************************************)
(* Isolation of the connections.                                           *)
(***************************************************************************)
\* C18: a step of one connection's task leaves every other connection as it
\* was; in particular the step in which the peek or the route-factory fails
\* ends that task alone.  No step changes the disable set, the listen
\* address or the factories of the server.
C18_FailureIsLocal ==
    [][/\ server' = server
       /\ \A c \in Conns :
             conn'[c] # conn[c] =>
                \A d \in Conns \ {c} : conn'[d] = conn[d]
       /\ \A c \in Conns :
             (\/ conn'[c].peek_failed /\ ~conn[c].peek_failed
              \/ conn'[c].route_failed /\ ~conn[c].route_failed) =>
                /\ conn'[c].started = {}
                /\ \A d \in Conns \ {c} :
                      /\ conn'[d] = conn[d]
                      /\ conn[d].pc = "peeking" =>
                            (ENABLED PeekReady(d) /\ ENABLED PeekError(d))'
                      /\ conn[d].pc = "running" => (ENABLED Poll(d))'
      ]_vars

\* One task has ended on a peek failure; the other was dispatched to HTTP/2,
\* has read two requests and is still running.
C18_Witness ==
    \E c, d \in Conns :
        /\ conn[c].peek_failed /\ conn[c].pc = "done"
        /\ conn[d].started = {"http2"} /\ conn[d].requests = 2
        /\ conn[d].pc = "running"

(***************************************************************************)
(* The input of the detection policy.                                      *)
(***************************************************************************)
\* C19: the bypass is decided by the port of the original destination the
\* lookup returned and by nothing else: a served connection skips the peek
\* exactly when it has an original destination on a port of the disable
\* set.  A connection without original destination is peeked although its
\* local port is in the disable set, and a connection whose original
\* destination is its own local address is bypassed on that port although
\* orig_dst_if_not_local reports no original destination for it.
C19_BypassByRawOrigDstPort ==
    \A c \in Conns :
        Served(c) =>
            LET source == conn[c].source[1]
                ports  == server.disable_protocol_detection_ports
            IN  /\ conn[c].peek_calls = 0 <=>
                      /\ source.orig_dst # None
                      /\ source.orig_dst[1].port \in ports
                /\ (source.orig_dst = None /\ source.local.port \in ports) =>
                      /\ conn[c].peek_calls = 1
                      /\ conn[c].started # {} => conn[c].detect_calls = 1
                /\ (/\ source.orig_dst # None
                    /\ source.orig_dst[1].port \in ports
                    /\ orig_dst_if_not_local(source) = None) =>
                      /\ conn[c].peek_calls = 0
                      /\ conn[c].started = {"forward"}

\* A connection without original destination, accepted on a listen port of
\* the disable set, was detected as HTTP/1; a connection whose original
\* destination is the listener itself was forwarded without a peek.
C19_Witness ==
    \E c, d \in Conns :
        /\ conn[c].source # None /\ conn[c].source[1].orig_dst = None
        /\ conn[c].source[1].local.port \in DisabledPorts
        /\ conn[c].started = {"http1"} /\ conn[c].peek_calls = 1
        /\ conn[d].source # None /\ conn[d].source[1].orig_dst # None
        /\ orig_dst_if_not_local(conn[d].source[1]) = None
        /\ conn[d].started = {"forward"} /\ conn[d].peek_calls = 0

====
